---- MODULE Spec2Model ----
(***************************************************************************)
(* A model of pdf-cutter: the outline flattener, the end-page resolver,    *)
(* the chapter-tree selection UI, the manual range parser, the extraction  *)
(* loop and main's exit paths.  Each component has its own specification   *)
(* (SpecResolve, SpecUI, ...) over its own variables; the variables of the *)
(* other components stay at their idle values.                             *)
(*                                                                         *)
(* Python values are modelled as follows: a dict is a record, a list is a  *)
(* sequence, a str is a sequence of one-character strings (where its       *)
(* characters matter) and None is the value None below.                    *)
(***************************************************************************)
EXTENDS Integers, Sequences, FiniteSets, TLC

\* Python's None where an int is expected (next_start=None).
None == -1

\* ------------------------------------------------------------------ bounds
\* Largest number of outline nodes in a tree given to the resolver.
MaxNodes == 4
\* Largest page count of a document given to the resolver.
MaxPages == 3
\* Longest outermost outline sequence given to the flattener.
MaxOutlineLen == 3
\* Longest sub-sequence of an outline given to the flattener.
MaxSubLen == 2
\* Number of pages a bookmark of the flattener's outline can point to.
MaxOutlinePages == 1
\* Largest number of chapters in the tree shown by the tree UI.
MaxUINodes == 3
\* Largest number of lines typed into the manual range editor.
MaxLines == 2
\* Largest page count of a document opened in the manual range editor.
MaxManualPages == 2
\* Longest list of chapters given to extract_chapters.
MaxChapters == 2
\* Largest page count of a document given to extract_chapters; the chapters'
\* pages go one page beyond it.
MaxExtractPages == 2

\* ------------------------------------------------------------ variables
VARIABLES
    r_pc,          \* resolver: "start" before calculate_end_pages, "done" after
    r_chapters,    \* resolver: the nested chapter list (mutated in place)
    r_total_pages, \* resolver: total_pages of the outermost call
    o_pc,          \* flattener: "start" before get_nested_outline, "done" after
    o_outline,     \* flattener: reader.outline, the nested bookmark sequence
    o_chapters,    \* flattener: the list get_nested_outline returned
    u_pc,          \* tree UI: "running", then "confirmed" or "quit"
    u_tree,        \* tree UI: the tree nodes under tree.root, with their flags
    u_root_expanded, \* tree UI: tree.root.is_expanded
    u_cursor,      \* tree UI: the path of tree.cursor_node (NoCursor: None)
    u_selected,    \* tree UI: selected_chapters, the value run_tui returns
    m_pc,          \* manual UI: "running", then "confirmed" or "quit"
    m_text,        \* manual UI: the text of the #ranges-input TextArea
    m_total_pages, \* manual UI: self.total_pages
    m_parsed,      \* manual UI: the (chapters, error) pair parse_ranges last returned
    m_error_label, \* manual UI: the message shown in the #error label
    m_chapters,    \* manual UI: self.chapters, the value run_manual_range_tui returns
    e_pc,          \* extraction: "start" before extract_chapters, "done" after
    e_chapters,    \* extraction: the list of chapters to extract
    e_total_pages, \* extraction: len(reader.pages)
    e_files,       \* extraction: the output directory, file name -> page indices
    e_writes,      \* extraction: the files written, in order (the "Created" lines)
    e_warnings,    \* extraction: the chapters skipped, in order (the "Warning" lines)
    x_pc,          \* main: the place main has reached ("exit": the process ended)
    x_manual_mode, \* main: manual_mode, --manual or -m was given
    x_use_manual,  \* main: use_manual
    x_outline,     \* main: reader.outline
    x_nested_chapters, \* main: nested_chapters, resolved before run_tui
    x_selected,    \* main: selected_chapters (Optional: <<>> is None)
    x_stdout,      \* main: the last message printed
    x_exit_code    \* main: the process's exit code (None while running)

r_vars == <<r_pc, r_chapters, r_total_pages>>
o_vars == <<o_pc, o_outline, o_chapters>>
u_vars == <<u_pc, u_tree, u_root_expanded, u_cursor, u_selected>>
m_vars == <<m_pc, m_text, m_total_pages, m_parsed, m_error_label, m_chapters>>
e_vars == <<e_pc, e_chapters, e_total_pages, e_files, e_writes, e_warnings>>
x_vars == <<x_pc, x_manual_mode, x_use_manual, x_outline, x_nested_chapters,
            x_selected, x_stdout, x_exit_code>>
vars == <<r_vars, o_vars, u_vars, m_vars, e_vars, x_vars>>

\* --------------------------------------------------- calculate_end_pages

\* All ordered forests of n nodes whose start pages lie in 1..pages, as
\* get_nested_outline builds them: title, start_page, children, no end_page.
RECURSIVE Forests(_, _)
Forests(n, pages) ==
    IF n = 0 THEN {<<>>}
    ELSE UNION {
        { <<[title |-> "t", start_page |-> s, children |-> c]>> \o rest :
            s \in 1..pages, c \in Forests(k - 1, pages), rest \in Forests(n - k, pages) }
        : k \in 1..n }

\* current_next_start: the next sibling's start, else the caller's next_start.
CurrentNextStart(chapters, i, next_start) ==
    IF i < Len(chapters) THEN chapters[i + 1].start_page ELSE next_start

\* A plausible slip: the subtraction of one page is forgotten.
EndPageNoGap(start, current_next_start, total_pages) ==
    IF current_next_start # None /\ current_next_start # 0
    THEN IF current_next_start > start THEN current_next_start ELSE start
    ELSE total_pages

\* The end page of one chapter.  `if current_next_start:` is Python truth:
\* false for None and for 0.
EndPage(start, current_next_start, total_pages) ==
    IF current_next_start # None /\ current_next_start # 0
    THEN IF current_next_start > start THEN current_next_start - 1 ELSE start
    ELSE total_pages

\* A plausible slip: the children are given the parent's end page as the
\* start of what follows them.
ChildNextStartIsEnd(end, current_next_start) == end

\* The next_start handed to the recursive call on the children.
ChildNextStart(end, current_next_start) == current_next_start

RECURSIVE calculate_end_pages(_, _, _)
calculate_end_pages(chapters, total_pages, next_start) ==
    [i \in 1..Len(chapters) |->
        LET chapter == chapters[i]
            start == chapter.start_page
            current_next_start == CurrentNextStart(chapters, i, next_start)
            end == EndPage(start, current_next_start, total_pages)
        IN  [title |-> chapter.title,
             start_page |-> start,
             end_page |-> end,
             children |->
                IF chapter.children # <<>>
                THEN calculate_end_pages(chapter.children, end,
                                         ChildNextStart(end, current_next_start))
                ELSE <<>>]]

ResolveInit ==
    /\ r_pc = "start"
    /\ \E pages \in 1..MaxPages, n \in 0..MaxNodes :
        /\ r_total_pages = pages
        /\ r_chapters \in Forests(n, pages)

ResolveIdle ==
    /\ r_pc = "idle"
    /\ r_chapters = <<>>
    /\ r_total_pages = 0

\* main: calculate_end_pages(nested_chapters, total_pages)
Resolve ==
    /\ r_pc = "start"
    /\ r_chapters' = calculate_end_pages(r_chapters, r_total_pages, None)
    /\ r_pc' = "done"
    /\ UNCHANGED r_total_pages
    /\ UNCHANGED <<o_vars, u_vars, m_vars, e_vars, x_vars>>

\* ------------------------------------------- resolver: claims C1 and C2

\* Every node of a forest, at any depth.
RECURSIVE AllNodes(_)
AllNodes(chapters) ==
    UNION { {chapters[i]} \cup AllNodes(chapters[i].children) : i \in 1..Len(chapters) }

\* Every non-empty sibling list of a forest: the outermost list and each
\* node's children list.
SiblingLists(chapters) ==
    {l \in {chapters} \cup {n.children : n \in AllNodes(chapters)} : l # <<>>}

\* The children of p all start inside p's own resolved range.
ChildrenInRange(p) ==
    \A i \in 1..Len(p.children) :
        /\ p.start_page <= p.children[i].start_page
        /\ p.children[i].start_page <= p.end_page

\* p's children end no later than p, and the last of them ends where p ends.
ChildrenWithinParent(p) ==
    /\ \A i \in 1..Len(p.children) : p.children[i].end_page <= p.end_page
    /\ p.children[Len(p.children)].end_page = p.end_page

\* C1 as stated: after calculate_end_pages, on any tree (duplicate and
\* out-of-order start pages included), every child's end_page is <= its
\* parent's end_page and the last child's end_page equals the parent's.
C1_ChildEndsWithinParent_AnyTree ==
    r_pc = "done" =>
        \A p \in AllNodes(r_chapters) : p.children # <<>> => ChildrenWithinParent(p)

\* C1 amended: the same, for every parent whose children all start inside the
\* parent's resolved range [start_page, end_page]; the children may still
\* repeat a start page or be out of order among themselves.
C1_ChildEndsWithinParent_InRange ==
    r_pc = "done" =>
        \A p \in AllNodes(r_chapters) :
            (p.children # <<>> /\ ChildrenInRange(p)) => ChildrenWithinParent(p)

\* C1's case: a resolved parent that is followed by a sibling (so its end comes
\* from that sibling, not from total_pages), whose children are in range and
\* out of order among themselves.
C1_Witness ==
    /\ r_pc = "done"
    /\ \E l \in SiblingLists(r_chapters) : \E i \in 1..(Len(l) - 1) :
        /\ Len(l[i].children) >= 2
        /\ ChildrenInRange(l[i])
        /\ l[i].children[1].start_page > l[i].children[2].start_page
        /\ l[i].end_page < r_total_pages

\* C2: after calculate_end_pages, in every sibling list and for every adjacent
\* pair, a larger next start gives end_page + 1 = next start and an equal or
\* smaller one gives end_page = start_page; the last node of the outermost
\* list ends at total_pages.
C2_SiblingsContiguous ==
    r_pc = "done" =>
        /\ \A l \in SiblingLists(r_chapters) : \A i \in 1..(Len(l) - 1) :
            IF l[i + 1].start_page > l[i].start_page
            THEN l[i].end_page + 1 = l[i + 1].start_page
            ELSE l[i].end_page = l[i].start_page
        /\ r_chapters # <<>> => r_chapters[Len(r_chapters)].end_page = r_total_pages

\* C2's case: a resolved tree with an increasing pair, a non-increasing pair
\* and a pair inside a children list.
C2_Witness ==
    /\ r_pc = "done"
    /\ Len(r_chapters) >= 2
    /\ r_chapters[2].start_page > r_chapters[1].start_page
    /\ \E n \in AllNodes(r_chapters) :
        /\ Len(n.children) >= 2
        /\ n.children[2].start_page <= n.children[1].start_page

\* ---------------------------------------------------- get_nested_outline

\* The elements of reader.outline: a bookmark (is_list FALSE, with its title
\* and the 0-based page its destination resolves to, None when
\* get_destination_page_number raises) or a nested list of elements.
Bookmarks ==
    [is_list : {FALSE}, title : {"A", "B"}, page : (0..(MaxOutlinePages - 1)) \cup {None}]

SeqsUpTo(S, n) == UNION {[1..k -> S] : k \in 0..n}

SubLists == {[is_list |-> TRUE, items |-> l] : l \in SeqsUpTo(Bookmarks, MaxSubLen)}

Outlines == SeqsUpTo(Bookmarks \cup SubLists, MaxOutlineLen)

\* reader.get_destination_page_number(item) returns (does not raise).
Resolves(item) == item.page # None

\* The dict appended for a bookmark that resolves.
NewChapter(item) ==
    [title |-> item.title, start_page |-> item.page + 1, children |-> <<>>]

RECURSIVE get_nested_outline(_)
RECURSIVE OutlineLoop(_, _, _)

\* The body of `for item in outline`, from element i on, with the chapters
\* built so far.
OutlineLoop(outline, i, chapters) ==
    IF i > Len(outline) THEN chapters
    ELSE LET item == outline[i] IN
        IF item.is_list
        THEN IF chapters # <<>>
             THEN OutlineLoop(outline, i + 1,
                    [chapters EXCEPT ![Len(chapters)].children =
                        get_nested_outline(item.items)])
             ELSE OutlineLoop(outline, i + 1, chapters)
        ELSE IF Resolves(item)
             THEN OutlineLoop(outline, i + 1, Append(chapters, NewChapter(item)))
             ELSE OutlineLoop(outline, i + 1, chapters)

get_nested_outline(outline) == OutlineLoop(outline, 1, <<>>)

FlattenInit ==
    /\ o_pc = "start"
    /\ o_outline \in Outlines
    /\ o_chapters = <<>>

FlattenIdle ==
    /\ o_pc = "idle"
    /\ o_outline = <<>>
    /\ o_chapters = <<>>

\* main: nested_chapters = get_nested_outline(reader.outline, reader)
Flatten ==
    /\ o_pc = "start"
    /\ o_chapters' = get_nested_outline(o_outline)
    /\ o_pc' = "done"
    /\ UNCHANGED o_outline
    /\ UNCHANGED <<r_vars, u_vars, m_vars, e_vars, x_vars>>

\* ------------------------------------------------- flattener: claim C7

\* The tree the claim describes: every bookmark that resolves becomes a node
\* whose children come from the sub-sequence directly after that bookmark
\* (none when the next element is not a sub-sequence); every other
\* sub-sequence and every bookmark that does not resolve is dropped.
RECURSIVE ChildrenOfPreceding(_, _)
ChildrenOfPreceding(outline, i) ==
    IF i > Len(outline) THEN <<>>
    ELSE LET item == outline[i] IN
        IF ~item.is_list /\ Resolves(item)
        THEN <<[title |-> item.title,
                start_page |-> item.page + 1,
                children |->
                    IF i < Len(outline) /\ outline[i + 1].is_list
                    THEN ChildrenOfPreceding(outline[i + 1].items, 1)
                    ELSE <<>>]>> \o ChildrenOfPreceding(outline, i + 1)
        ELSE ChildrenOfPreceding(outline, i + 1)

\* C7: get_nested_outline gives every node exactly the resolvable items of the
\* sub-sequence directly following that node's own bookmark; a bookmark that
\* does not resolve is dropped, and so is a sub-sequence that does not directly
\* follow a kept bookmark.
C7_ChildrenFollowOwnBookmark ==
    o_pc = "done" => o_chapters = ChildrenOfPreceding(o_outline, 1)

\* ------------------------------------------- ChapterTree, PDFSplitterApp

\* The number of nodes of a forest.
RECURSIVE Size(_)
RECURSIVE NodesBefore(_, _)
Size(chapters) == NodesBefore(chapters, Len(chapters) + 1)

\* The number of nodes of the first i - 1 trees of a forest.
NodesBefore(chapters, i) ==
    IF i = 1 THEN 0
    ELSE NodesBefore(chapters, i - 1) + 1 + Size(chapters[i - 1].children)

\* A forest as main hands it to the resolver: every node is titled with its
\* own path (so titles tell the nodes apart) and starts one page after the
\* node before it in document order.
RECURSIVE InPageOrder(_, _, _)
InPageOrder(chapters, path, base) ==
    [i \in 1..Len(chapters) |->
        LET start == base + NodesBefore(chapters, i) + 1 IN
        [title |-> path \o <<i>>,
         start_page |-> start,
         children |-> InPageOrder(chapters[i].children, path \o <<i>>, start)]]

\* The outline_data run_tui is given: resolved by calculate_end_pages.
OutlineData(shape) ==
    calculate_end_pages(InPageOrder(shape, <<>>, 0), Size(shape), None)

\* populate_tree: one tree node per item, checked by default, collapsed;
\* allow_expand is switched off for an item without children.
RECURSIVE populate_tree(_)
populate_tree(children_data) ==
    [i \in 1..Len(children_data) |->
        LET item == children_data[i] IN
        [title |-> item.title,
         start_page |-> item.start_page,
         end_page |-> item.end_page,
         checked |-> TRUE,
         expanded |-> FALSE,
         allow_expand |-> item.children # <<>>,
         children |-> populate_tree(item.children)]]

\* tree.cursor_node is None.
NoCursor == <<0>>

\* The node at a non-empty path under the root.
RECURSIVE NodeAt(_, _)
NodeAt(nodes, path) ==
    IF Len(path) = 1 THEN nodes[Head(path)]
    ELSE NodeAt(nodes[Head(path)].children, Tail(path))

\* Every path to a node under the root.
RECURSIVE Paths(_, _)
Paths(nodes, path) ==
    UNION { {path \o <<i>>} \cup Paths(nodes[i].children, path \o <<i>>) :
            i \in 1..Len(nodes) }

\* The paths of the proper ancestors of a path (the root left out).
Ancestors(path) == {SubSeq(path, 1, k) : k \in 1..(Len(path) - 1)}

\* The tree widget shows a line for the node: the root, or a node whose
\* ancestors (the root included) are all expanded.
Visible(path) ==
    \/ path = <<>>
    \/ /\ u_root_expanded
       /\ \A a \in Ancestors(path) : NodeAt(u_tree, a).expanded

\* TreeNode.expand() / TreeNode.collapse() on the node at path: the flag is
\* set whatever allow_expand says.
RECURSIVE SetExpanded(_, _, _)
SetExpanded(nodes, path, value) ==
    LET h == Head(path) IN
    IF Len(path) = 1
    THEN [nodes EXCEPT ![h].expanded = value]
    ELSE [nodes EXCEPT ![h].children = SetExpanded(nodes[h].children, Tail(path), value)]

\* set_node_checked: the node and, recursively, every child.
RECURSIVE set_node_checked(_, _)
set_node_checked(node, checked) ==
    [node EXCEPT
        !.checked = checked,
        !.children = [i \in 1..Len(node.children) |->
                        set_node_checked(node.children[i], checked)]]

\* The tree after set_node_checked on the node at path.
RECURSIVE CheckAt(_, _, _)
CheckAt(nodes, path, checked) ==
    LET h == Head(path) IN
    IF Len(path) = 1
    THEN [nodes EXCEPT ![h] = set_node_checked(nodes[h], checked)]
    ELSE [nodes EXCEPT ![h].children = CheckAt(nodes[h].children, Tail(path), checked)]

\* The dict collect_chapters appends for a node.
ChapterOf(data) ==
    [title |-> data.title, start_page |-> data.start_page, end_page |-> data.end_page]

\* A plausible slip: the checked flag is not looked at.
ContributionIgnoringChecked(child, child_chapters) ==
    IF ~child.expanded THEN <<ChapterOf(child)>> ELSE child_chapters

\* A plausible slip: an expanded node is emitted along with its children.
ContributionWithExpandedParent(child, child_chapters) ==
    IF ~child.checked THEN <<>>
    ELSE IF ~child.expanded THEN <<ChapterOf(child)>>
    ELSE <<ChapterOf(child)>> \o child_chapters

\* What one child adds to the list, child_chapters being collect_chapters of
\* that child.
Contribution(child, child_chapters) ==
    IF ~child.checked THEN <<>>
    ELSE IF ~child.expanded THEN <<ChapterOf(child)>>
    ELSE child_chapters

RECURSIVE collect_chapters(_)
RECURSIVE CollectLoop(_, _)

\* The body of `for child in node.children`, from child i on.
CollectLoop(children, i) ==
    IF i > Len(children) THEN <<>>
    ELSE Contribution(children[i], collect_chapters(children[i].children))
            \o CollectLoop(children, i + 1)

\* collect_chapters(node), given node.children.
collect_chapters(children) == CollectLoop(children, 1)

\* PDFSplitterApp.on_mount on each resolved tree of at most MaxUINodes nodes.
UIInit ==
    /\ u_pc = "running"
    /\ \E n \in 0..MaxUINodes : \E shape \in Forests(n, 1) :
        u_tree = populate_tree(OutlineData(shape))
    /\ u_root_expanded = TRUE
    /\ u_cursor = NoCursor
    /\ u_selected = <<>>

UIIdle ==
    /\ u_pc = "idle"
    /\ u_tree = <<>>
    /\ u_root_expanded = FALSE
    /\ u_cursor = NoCursor
    /\ u_selected = <<>>

\* The tree widget moves the cursor to a line it shows.
MoveCursor ==
    /\ u_pc = "running"
    /\ \E path \in {<<>>} \cup Paths(u_tree, <<>>) :
        /\ Visible(path)
        /\ u_cursor' = path
    /\ UNCHANGED <<u_pc, u_tree, u_root_expanded, u_selected>>
    /\ UNCHANGED <<r_vars, o_vars, m_vars, e_vars, x_vars>>

\* space: the root has no data, so only a chapter node is toggled.
action_toggle_check ==
    /\ u_pc = "running"
    /\ u_cursor # NoCursor
    /\ u_cursor # <<>>
    /\ u_tree' = CheckAt(u_tree, u_cursor, ~NodeAt(u_tree, u_cursor).checked)
    /\ UNCHANGED <<u_pc, u_root_expanded, u_cursor, u_selected>>
    /\ UNCHANGED <<r_vars, o_vars, m_vars, e_vars, x_vars>>

\* right: cursor_node.expand(), on the root, a parent or a leaf alike.
action_expand_node ==
    /\ u_pc = "running"
    /\ u_cursor # NoCursor
    /\ IF u_cursor = <<>>
       THEN u_root_expanded' = TRUE /\ UNCHANGED u_tree
       ELSE u_tree' = SetExpanded(u_tree, u_cursor, TRUE) /\ UNCHANGED u_root_expanded
    /\ UNCHANGED <<u_pc, u_cursor, u_selected>>
    /\ UNCHANGED <<r_vars, o_vars, m_vars, e_vars, x_vars>>

\* left: cursor_node.collapse().
action_collapse_node ==
    /\ u_pc = "running"
    /\ u_cursor # NoCursor
    /\ IF u_cursor = <<>>
       THEN u_root_expanded' = FALSE /\ UNCHANGED u_tree
       ELSE u_tree' = SetExpanded(u_tree, u_cursor, FALSE) /\ UNCHANGED u_root_expanded
    /\ UNCHANGED <<u_pc, u_cursor, u_selected>>
    /\ UNCHANGED <<r_vars, o_vars, m_vars, e_vars, x_vars>>

\* enter: collect from tree.root and exit with the list.
action_confirm ==
    /\ u_pc = "running"
    /\ u_selected' = collect_chapters(u_tree)
    /\ u_pc' = "confirmed"
    /\ UNCHANGED <<u_tree, u_root_expanded, u_cursor>>
    /\ UNCHANGED <<r_vars, o_vars, m_vars, e_vars, x_vars>>

\* q: the app exits without a result.
action_quit ==
    /\ u_pc = "running"
    /\ u_pc' = "quit"
    /\ UNCHANGED <<u_tree, u_root_expanded, u_cursor, u_selected>>
    /\ UNCHANGED <<r_vars, o_vars, m_vars, e_vars, x_vars>>

UINext ==
    \/ MoveCursor
    \/ action_toggle_check
    \/ action_expand_node
    \/ action_collapse_node
    \/ action_confirm
    \/ action_quit

\* ------------------------------------- tree UI: claims C3, C4 and C10

\* The positions of the collected list that hold the node at path (titles are
\* the nodes' paths here).
EmittedAt(path) == {k \in 1..Len(u_selected) : u_selected[k].title = path}

\* Every ancestor of the node at path is checked and expanded.
AncestorsOpen(path) ==
    \A a \in Ancestors(path) :
        NodeAt(u_tree, a).checked /\ NodeAt(u_tree, a).expanded

\* C3: after any toggle-check, expand and collapse actions and confirm, the
\* collected list holds no node that is unchecked or has an unchecked
\* ancestor, whatever that node's own flag.
C3_NoUncheckedAncestorEmitted ==
    u_pc = "confirmed" =>
        \A path \in Paths(u_tree, <<>>) :
            (\E a \in Ancestors(path) \cup {path} : ~NodeAt(u_tree, a).checked)
                => EmittedAt(path) = {}

\* C3's case: confirm on a tree where a node was checked again under an
\* unchecked ancestor, beside a node that is collected.
C3_Witness ==
    /\ u_pc = "confirmed"
    /\ u_selected # <<>>
    /\ \E path \in Paths(u_tree, <<>>) :
        /\ NodeAt(u_tree, path).checked
        /\ \E a \in Ancestors(path) :
            ~NodeAt(u_tree, a).checked /\ NodeAt(u_tree, a).expanded

\* C4: the collected list never holds two nodes one of which is an ancestor of
\* the other: no node is collected twice, a collected node is checked and
\* collapsed and none of its descendants is collected, a checked expanded
\* node is not collected, and a checked collapsed node that the traversal
\* reaches is collected as one unit.
C4_NoAncestorAndDescendant ==
    u_pc = "confirmed" =>
        \A path \in Paths(u_tree, <<>>) :
            /\ Cardinality(EmittedAt(path)) <= 1
            /\ EmittedAt(path) # {} =>
                /\ NodeAt(u_tree, path).checked
                /\ ~NodeAt(u_tree, path).expanded
                /\ \A a \in Ancestors(path) : EmittedAt(a) = {}
            /\ (NodeAt(u_tree, path).checked /\ NodeAt(u_tree, path).expanded)
                => EmittedAt(path) = {}
            /\ (NodeAt(u_tree, path).checked /\ ~NodeAt(u_tree, path).expanded
                    /\ AncestorsOpen(path))
                => EmittedAt(path) # {}

\* C4's case: confirm on a tree with a checked collapsed parent (collected, its
\* children absorbed) beside a checked expanded parent (its child collected).
C4_Witness ==
    /\ u_pc = "confirmed"
    /\ \E p, q \in Paths(u_tree, <<>>) :
        /\ NodeAt(u_tree, p).children # <<>>
        /\ NodeAt(u_tree, p).checked /\ ~NodeAt(u_tree, p).expanded
        /\ EmittedAt(p) # {}
        /\ Ancestors(q) # {}
        /\ EmittedAt(q) # {}

\* C10: after any expand, collapse and toggle-check actions (expand on a leaf
\* included) and confirm, every checked leaf whose ancestors are all checked
\* and expanded is in the collected list exactly once, with its own pages.
C10_CheckedLeafCollected ==
    u_pc = "confirmed" =>
        \A path \in Paths(u_tree, <<>>) :
            LET node == NodeAt(u_tree, path) IN
            (node.children = <<>> /\ node.checked /\ AncestorsOpen(path)) =>
                /\ Cardinality(EmittedAt(path)) = 1
                /\ \A k \in EmittedAt(path) : u_selected[k] = ChapterOf(node)

\* ------------------------------------------------------ ManualRangeApp

\* A str is a sequence of one-character strings.  An Optional value (the
\* chapters and the error parse_ranges returns, a regex group) is a sequence of
\* length 0 (None) or 1 (the value).

\* Whitespace, as str.strip() and the regex \s see it.
IsSpace(c) == c \in {" ", "\n"}

\* A decimal digit, as the regex \d sees it.
IsDigit(c) == c \in {"0", "1", "2", "3", "4", "5", "6", "7", "8", "9"}

RECURSIVE LStrip(_)
LStrip(str) == IF str # <<>> /\ IsSpace(Head(str)) THEN LStrip(Tail(str)) ELSE str

RECURSIVE RStrip(_)
RStrip(str) ==
    IF str # <<>> /\ IsSpace(str[Len(str)])
    THEN RStrip(SubSeq(str, 1, Len(str) - 1))
    ELSE str

\* str.strip()
Strip(str) == RStrip(LStrip(str))

\* str.split('\n'), from character i on, cur being the piece in progress.
RECURSIVE SplitLoop(_, _, _)
SplitLoop(str, i, cur) ==
    IF i > Len(str) THEN <<cur>>
    ELSE IF str[i] = "\n" THEN <<cur>> \o SplitLoop(str, i + 1, <<>>)
    ELSE SplitLoop(str, i + 1, Append(cur, str[i]))

SplitLines(str) == SplitLoop(str, 1, <<>>)

\* [line.strip() for line in ... if line.strip()]
RECURSIVE StripNonBlank(_)
StripNonBlank(pieces) ==
    IF pieces = <<>> THEN <<>>
    ELSE IF Strip(Head(pieces)) # <<>>
         THEN <<Strip(Head(pieces))>> \o StripNonBlank(Tail(pieces))
         ELSE StripNonBlank(Tail(pieces))

\* lines = [line.strip() for line in text.strip().split('\n') if line.strip()]
LinesOf(text) == StripNonBlank(SplitLines(Strip(text)))

\* The first index >= i of str that holds no digit (Len(str) + 1 if none).
RECURSIVE SkipDigits(_, _)
SkipDigits(str, i) ==
    IF i <= Len(str) /\ IsDigit(str[i]) THEN SkipDigits(str, i + 1) ELSE i

\* The first index >= i of str that holds no whitespace.
RECURSIVE SkipSpaces(_, _)
SkipSpaces(str, i) ==
    IF i <= Len(str) /\ IsSpace(str[i]) THEN SkipSpaces(str, i + 1) ELSE i

DigitValue(c) ==
    CASE c = "0" -> 0 [] c = "1" -> 1 [] c = "2" -> 2 [] c = "3" -> 3 [] c = "4" -> 4
      [] c = "5" -> 5 [] c = "6" -> 6 [] c = "7" -> 7 [] c = "8" -> 8 [] c = "9" -> 9

\* int(digits)
RECURSIVE ToInt(_)
ToInt(digits) ==
    IF digits = <<>> THEN 0
    ELSE 10 * ToInt(SubSeq(digits, 1, Len(digits) - 1)) + DigitValue(digits[Len(digits)])

DigitChar(d) ==
    CASE d = 0 -> "0" [] d = 1 -> "1" [] d = 2 -> "2" [] d = 3 -> "3" [] d = 4 -> "4"
      [] d = 5 -> "5" [] d = 6 -> "6" [] d = 7 -> "7" [] d = 8 -> "8" [] d = 9 -> "9"

\* str(n) of a natural number.
RECURSIVE ToStr(_)
ToStr(n) == IF n < 10 THEN <<DigitChar(n)>> ELSE Append(ToStr(n \div 10), DigitChar(n % 10))

NoMatch == [matched |-> FALSE, start |-> <<>>, end |-> <<>>, title |-> <<>>]

\* re.match(r'^(\d+)\s*-\s*(\d+)(?:\s*:\s*(.+))?$', line): the groups, the
\* third one optional.  Every repetition is greedy; the only one that giving
\* back can help is the \s* before (.+), which gives one character back when
\* nothing but whitespace follows the colon.
Match(line) ==
    LET n == Len(line)
        a == SkipDigits(line, 1)
        b == SkipSpaces(line, a)
        d == SkipSpaces(line, b + 1)
        e == SkipDigits(line, d)
        f == SkipSpaces(line, e)
        g == SkipSpaces(line, f + 1)
    IN  IF a = 1 \/ b > n THEN NoMatch
        ELSE IF line[b] # "-" \/ e = d THEN NoMatch
        ELSE IF e > n
        THEN [matched |-> TRUE, start |-> SubSeq(line, 1, a - 1),
              end |-> SubSeq(line, d, e - 1), title |-> <<>>]
        ELSE IF f <= n /\ line[f] = ":" /\ f < n
        THEN [matched |-> TRUE, start |-> SubSeq(line, 1, a - 1),
              end |-> SubSeq(line, d, e - 1),
              title |-> <<SubSeq(line, IF g <= n THEN g ELSE n, n)>>]
        ELSE NoMatch

\* A plausible slip: the order check is made before the upper-bound check.
RangeErrorOrderFirst(start, end, total_pages) ==
    IF start < 1 THEN "start"
    ELSE IF start > end THEN "order"
    ELSE IF end > total_pages THEN "end"
    ELSE "ok"

\* The range checks of one line, in the order of the code: which message is
\* returned, "ok" when none is.
RangeError(start, end, total_pages) ==
    IF start < 1 THEN "start"
    ELSE IF end > total_pages THEN "end"
    ELSE IF start > end THEN "order"
    ELSE "ok"

\* f"Part {i}"
DefaultTitle(i) == <<"P", "a", "r", "t", " ">> \o ToStr(i)

\* `return None, f"Line {i}: ..."`: no chapters, and the message, of which the
\* line number and the check that failed are kept.
ErrorResult(chapters, i, kind) ==
    [chapters |-> <<>>, error |-> <<[line |-> i, kind |-> kind]>>]

\* The body of `for i, line in enumerate(lines, 1)`, from line i on.
RECURSIVE ParseLoop(_, _, _, _)
ParseLoop(lines, i, chapters, total_pages) ==
    IF i > Len(lines) THEN [chapters |-> <<chapters>>, error |-> <<>>]
    ELSE LET match == Match(lines[i]) IN
        IF ~match.matched THEN ErrorResult(chapters, i, "format")
        ELSE LET start == ToInt(match.start)
                 end == ToInt(match.end)
                 title == IF match.title # <<>> /\ match.title[1] # <<>>
                          THEN match.title[1] ELSE DefaultTitle(i)
                 kind == RangeError(start, end, total_pages)
             IN IF kind # "ok" THEN ErrorResult(chapters, i, kind)
                ELSE ParseLoop(lines, i + 1,
                        Append(chapters, [title |-> Strip(title),
                                          start_page |-> start,
                                          end_page |-> end]),
                        total_pages)

\* parse_ranges(text): the pair (chapters, error).
parse_ranges(text, total_pages) == ParseLoop(LinesOf(text), 1, <<>>, total_pages)

\* Lines a user may type: ranges that pass, ranges that fail each check (some
\* of them more than one), lines that are not ranges, blank lines.
SampleLines == {
    <<"1", "-", "1">>,
    <<"1", "-", "2">>,
    <<"2", "-", "2">>,
    <<"0", "1", "-", "2">>,
    <<" ", "1", " ", "-", " ", "2", " ">>,
    <<"1", "-", "2", ":", "a">>,
    <<"1", "-", "1", " ", ":", " ", "a", " ", "b">>,
    <<"0", "-", "1">>,
    <<"0", "-", "3">>,
    <<"1", "-", "3">>,
    <<"3", "-", "3">>,
    <<"3", "-", "2">>,
    <<"2", "-", "1">>,
    <<"1", "0", "-", "9">>,
    <<"x">>,
    <<"1", "-">>,
    <<"-", "2">>,
    <<"1", " ", "2">>,
    <<"1", "-", "b", "a", "d">>,
    <<"1", "-", "2", ":">>,
    <<"1", "-", "2", "a">>,
    <<>>,
    <<" ">> }

\* '\n'.join(lines)
RECURSIVE JoinLines(_)
JoinLines(lines) ==
    IF lines = <<>> THEN <<>>
    ELSE IF Len(lines) = 1 THEN lines[1]
    ELSE lines[1] \o <<"\n">> \o JoinLines(Tail(lines))

ManualInit ==
    /\ m_pc = "running"
    /\ \E n \in 0..MaxLines : \E lines \in [1..n -> SampleLines] :
        m_text = JoinLines(lines)
    /\ m_total_pages \in 1..MaxManualPages
    /\ m_parsed = <<>>
    /\ m_error_label = <<>>
    /\ m_chapters = <<>>

ManualIdle ==
    /\ m_pc = "idle"
    /\ m_text = <<>>
    /\ m_total_pages = 0
    /\ m_parsed = <<>>
    /\ m_error_label = <<>>
    /\ m_chapters = <<>>

\* ManualRangeApp.action_confirm (ctrl+s or the Confirm button).
manual_action_confirm ==
    /\ m_pc = "running"
    /\ IF Strip(m_text) = <<>>
       THEN /\ m_error_label' = <<[line |-> 0, kind |-> "empty"]>>
            /\ UNCHANGED <<m_pc, m_parsed, m_chapters>>
       ELSE LET ret == parse_ranges(Strip(m_text), m_total_pages) IN
            /\ m_parsed' = <<ret>>
            /\ IF ret.error # <<>>
               THEN /\ m_error_label' = ret.error
                    /\ UNCHANGED <<m_pc, m_chapters>>
               ELSE /\ m_chapters' = ret.chapters[1]
                    /\ m_pc' = "confirmed"
                    /\ UNCHANGED m_error_label
    /\ UNCHANGED <<m_text, m_total_pages>>
    /\ UNCHANGED <<r_vars, o_vars, u_vars, e_vars, x_vars>>

\* The Quit button: self.exit([]).
manual_quit ==
    /\ m_pc = "running"
    /\ m_pc' = "quit"
    /\ UNCHANGED <<m_text, m_total_pages, m_parsed, m_error_label, m_chapters>>
    /\ UNCHANGED <<r_vars, o_vars, u_vars, e_vars, x_vars>>

ManualNext ==
    \/ manual_action_confirm
    \/ manual_quit

\* --------------------------------------------------- manual UI: claim C5

\* The checks of the claim on one line, in the claim's order: (1) grammar,
\* (2) start < 1, (3) end > total_pages, (4) start > end.
FirstFailingCheck(line, total_pages) ==
    LET match == Match(line) IN
    IF ~match.matched THEN "format"
    ELSE IF ToInt(match.start) < 1 THEN "start"
    ELSE IF ToInt(match.end) > total_pages THEN "end"
    ELSE IF ToInt(match.start) > ToInt(match.end) THEN "order"
    ELSE "ok"

IsAlpha(c) == c \in {"a", "b", "c", "e", "h", "p", "r", "t"}

\* [c for c in title if c.isalpha() or c.isdigit() or c in (' ', '-', '_')]
RECURSIVE KeepSafe(_)
KeepSafe(title) ==
    IF title = <<>> THEN <<>>
    ELSE IF IsAlpha(Head(title)) \/ IsDigit(Head(title)) \/ Head(title) \in {" ", "-", "_"}
         THEN <<Head(title)>> \o KeepSafe(Tail(title))
         ELSE KeepSafe(Tail(title))

\* The sanitized title, or f"chapter_{i+1}" when nothing is left of it; n is
\* the chapter's 1-based position, the code's i + 1.
SafeTitle(title, n) ==
    LET safe_title == Strip(KeepSafe(title)) IN
    IF safe_title = <<>>
    THEN <<"c", "h", "a", "p", "t", "e", "r", "_">> \o ToStr(n)
    ELSE safe_title

\* f"{safe_title}.pdf"
OutputFilename(title, n) == SafeTitle(title, n) \o <<".", "p", "d", "f">>

\* `if start_idx >= total_pages`: the chapter is skipped.
Skipped(start_page, total_pages) == start_page - 1 >= total_pages

\* A plausible slip: the end index is not clamped to the document.
PageIndicesUnclamped(start_page, end_page, total_pages) ==
    [k \in 1..(IF end_page > start_page - 1 THEN end_page - (start_page - 1) ELSE 0)
        |-> start_page - 1 + k - 1]

\* range(start_idx, actual_end_idx): the 0-based page indices added to the
\* writer, in order.
PageIndices(start_page, end_page, total_pages) ==
    LET start_idx == start_page - 1
        end_idx == end_page
        actual_end_idx == IF end_idx < total_pages THEN end_idx ELSE total_pages
    IN  [k \in 1..(IF actual_end_idx > start_idx THEN actual_end_idx - start_idx ELSE 0)
            |-> start_idx + k - 1]

\* The body of `for i, chapter in enumerate(chapters)`, from the chapter at
\* 1-based position n on; out holds the directory, the writes and the warnings
\* so far.  open(output_path, "wb") replaces a file of the same name.
RECURSIVE ExtractLoop(_, _, _, _)
ExtractLoop(chapters, n, total_pages, out) ==
    IF n > Len(chapters) THEN out
    ELSE LET chapter == chapters[n]
             output_filename == OutputFilename(chapter.title, n)
             pages == PageIndices(chapter.start_page, chapter.end_page, total_pages)
         IN IF Skipped(chapter.start_page, total_pages)
            THEN ExtractLoop(chapters, n + 1, total_pages,
                    [out EXCEPT !.warnings = Append(@, n)])
            ELSE ExtractLoop(chapters, n + 1, total_pages,
                    [files |-> [f \in DOMAIN out.files \cup {output_filename} |->
                                    IF f = output_filename THEN pages ELSE out.files[f]],
                     writes |-> Append(out.writes,
                                    [index |-> n, filename |-> output_filename,
                                     pages |-> pages]),
                     warnings |-> out.warnings])

\* The output directory is taken as empty when the first chapter is written.
extract_chapters(chapters, total_pages) ==
    ExtractLoop(chapters, 1, total_pages,
                [files |-> <<>>, writes |-> <<>>, warnings |-> <<>>])

\* Titles of chapters: a plain one, one that only differs from it by a
\* character the sanitizer drops, one of which nothing is left, and one that
\* reads like a fallback name.
SampleTitles == {
    <<"a">>,
    <<"a", "/">>,
    <<"/">>,
    <<"c", "h", "a", "p", "t", "e", "r", "_", "2">> }

\* extract_chapters is called with any list of chapters: the pages of a
\* chapter may lie beyond the document and its end before its start.
ExtractInit ==
    /\ e_pc = "start"
    /\ e_total_pages \in 1..MaxExtractPages
    /\ \E n \in 0..MaxChapters :
        e_chapters \in [1..n -> [title : SampleTitles,
                                 start_page : 1..(MaxExtractPages + 1),
                                 end_page : 1..(MaxExtractPages + 1)]]
    /\ e_files = <<>>
    /\ e_writes = <<>>
    /\ e_warnings = <<>>

ExtractIdle ==
    /\ e_pc = "idle"
    /\ e_chapters = <<>>
    /\ e_total_pages = 0
    /\ e_files = <<>>
    /\ e_writes = <<>>
    /\ e_warnings = <<>>

\* main: extract_chapters(pdf_path, selected_chapters)
Extract ==
    /\ e_pc = "start"
    /\ LET out == extract_chapters(e_chapters, e_total_pages) IN
        /\ e_files' = out.files
        /\ e_writes' = out.writes
        /\ e_warnings' = out.warnings
    /\ e_pc' = "done"
    /\ UNCHANGED <<e_chapters, e_total_pages>>
    /\ UNCHANGED <<r_vars, o_vars, u_vars, m_vars, x_vars>>

\* ------------------------------------------- extraction: claims C6 and C9

\* C6: extract_chapters gives every range that is not dropped its own output
\* file: no two entries of the list are written to the same file name, and the
\* directory ends up with one file per extracted range.
C6_OneFilePerRange ==
    e_pc = "done" =>
        /\ \A j, k \in 1..Len(e_writes) :
            j # k => e_writes[j].filename # e_writes[k].filename
        /\ Cardinality(DOMAIN e_files) = Len(e_writes)

\* The positions of the chapters that are not skipped, in order.
RECURSIVE KeptFrom(_)
KeptFrom(n) ==
    IF n > Len(e_chapters) THEN <<>>
    ELSE IF e_chapters[n].start_page > e_total_pages THEN KeptFrom(n + 1)
    ELSE <<n>> \o KeptFrom(n + 1)

\* The positions of the chapters that are skipped, in order.
RECURSIVE DroppedFrom(_)
DroppedFrom(n) ==
    IF n > Len(e_chapters) THEN <<>>
    ELSE IF e_chapters[n].start_page > e_total_pages THEN <<n>> \o DroppedFrom(n + 1)
    ELSE DroppedFrom(n + 1)

\* The 0-based indices lo, lo + 1, ..., hi - 1.
IndicesFromTo(lo, hi) == [k \in 1..(IF hi > lo THEN hi - lo ELSE 0) |-> lo + k - 1]

Min(a, b) == IF a < b THEN a ELSE b

\* C9: extract_chapters processes every range in order.  A range with
\* start_page > total_pages is skipped with a warning and no file is written
\* for it, the ranges after it still being processed; for any other range the
\* pages written are exactly the 0-based indices start_page - 1 up to but
\* excluding min(end_page, total_pages).
C9_SkipOrClamp ==
    e_pc = "done" =>
        /\ e_warnings = DroppedFrom(1)
        /\ Len(e_writes) = Len(KeptFrom(1))
        /\ \A k \in 1..Len(e_writes) :
            LET n == KeptFrom(1)[k] IN
            /\ e_writes[k].index = n
            /\ e_writes[k].pages =
                IndicesFromTo(e_chapters[n].start_page - 1,
                              Min(e_chapters[n].end_page, e_total_pages))

\* C9's case: the first range starts beyond the document and is skipped, the
\* second one ends beyond the document and is written clamped.
C9_Witness ==
    /\ e_pc = "done"
    /\ Len(e_chapters) = 2
    /\ e_chapters[1].start_page > e_total_pages
    /\ e_chapters[2].end_page > e_total_pages
    /\ e_warnings = <<1>>
    /\ Len(e_writes) = 1
    /\ e_writes[1].pages # <<>>

\* ------------------------------------------------------------------ main

\* The outlines main meets: none (an empty list), one bookmark that resolves
\* or does not, one sub-sequence on its own.
MainOutlines == SeqsUpTo(Bookmarks \cup SubLists, 1)

\* `if not selected_chapters`: None or an empty list.
NothingSelected(selected) == selected = <<>> \/ selected[1] = <<>>

\* A plausible slip: no selection is reported as a failure.
ExitNoChaptersAsFailure == [code |-> 1, message |-> "No chapters selected."]

\* print("No chapters selected."); sys.exit(0).  SystemExit is no Exception,
\* so the except clause does not turn it into exit code 1.
ExitNoChapters == [code |-> 0, message |-> "No chapters selected."]

\* print(usage); sys.exit(1)
ExitUsage == [code |-> 1, message |-> "Usage: python main.py [--manual] <book.pdf>"]

\* print(f"Error: File '{pdf_path}' not found."); sys.exit(1)
ExitNotFound == [code |-> 1, message |-> "Error: File not found."]

\* except Exception: print(f"Error reading PDF: {e}"); sys.exit(1)
ExitException == [code |-> 1, message |-> "Error reading PDF"]

\* main returns after extract_chapters: the interpreter exits with code 0.
ExitExtracted == [code |-> 0, message |-> "Created"]

\* What run_manual_range_tui can return: None (the q key), [] (the Quit
\* button), or the chapters of a text that parsed (never an empty list).
ManualResults ==
    {<<>>, << <<>> >>,
     << <<[title |-> DefaultTitle(1), start_page |-> 1, end_page |-> 1]>> >>}

\* What run_tui can return: None (the q key), the list collected from the tree
\* as it is shown first, or an empty list (every chapter unchecked).
TreeResults(nested_chapters) ==
    {<<>>, << <<>> >>, <<collect_chapters(populate_tree(nested_chapters))>>}

MainInit ==
    /\ x_pc = "args"
    /\ x_manual_mode \in BOOLEAN
    /\ x_use_manual = FALSE
    /\ x_outline = <<>>
    /\ x_nested_chapters = <<>>
    /\ x_selected = <<>>
    /\ x_stdout = ""
    /\ x_exit_code = None

MainIdle ==
    /\ x_pc = "idle"
    /\ x_manual_mode = FALSE
    /\ x_use_manual = FALSE
    /\ x_outline = <<>>
    /\ x_nested_chapters = <<>>
    /\ x_selected = <<>>
    /\ x_stdout = ""
    /\ x_exit_code = None

\* The process ends with an exit code and a last message.
Exit(how) ==
    /\ x_pc' = "exit"
    /\ x_exit_code' = how.code
    /\ x_stdout' = how.message

\* The argument checks: no path, or a path that does not exist.
main_args ==
    /\ x_pc = "args"
    /\ \E has_path \in BOOLEAN, exists \in BOOLEAN :
        IF ~has_path THEN Exit(ExitUsage)
        ELSE IF ~exists THEN Exit(ExitNotFound)
        ELSE x_pc' = "open" /\ UNCHANGED <<x_exit_code, x_stdout>>
    /\ UNCHANGED <<x_manual_mode, x_use_manual, x_outline, x_nested_chapters, x_selected>>
    /\ UNCHANGED <<r_vars, o_vars, u_vars, m_vars, e_vars>>

\* PdfReader(pdf_path) and the choice between the two UIs; the tree of the
\* outline UI is resolved here (calculate_end_pages).
main_open ==
    /\ x_pc = "open"
    /\ \E readable \in BOOLEAN, outline \in MainOutlines :
        IF ~readable
        THEN /\ Exit(ExitException)
             /\ UNCHANGED <<x_use_manual, x_outline, x_nested_chapters>>
        ELSE LET nested_chapters ==
                    IF ~x_manual_mode /\ outline # <<>>
                    THEN get_nested_outline(outline) ELSE <<>>
                 use_manual ==
                    x_manual_mode \/ outline = <<>> \/ nested_chapters = <<>>
             IN /\ x_outline' = outline
                /\ x_use_manual' = use_manual
                /\ x_nested_chapters' =
                        IF use_manual THEN nested_chapters
                        ELSE calculate_end_pages(nested_chapters, MaxOutlinePages, None)
                /\ x_pc' = IF use_manual THEN "manual_tui" ELSE "tree_tui"
                /\ UNCHANGED <<x_exit_code, x_stdout>>
    /\ UNCHANGED <<x_manual_mode, x_selected>>
    /\ UNCHANGED <<r_vars, o_vars, u_vars, m_vars, e_vars>>

\* selected_chapters = run_manual_range_tui(...), then `if not selected_chapters`.
main_run_manual_range_tui ==
    /\ x_pc = "manual_tui"
    /\ \E selected \in ManualResults :
        /\ x_selected' = selected
        /\ IF NothingSelected(selected)
           THEN Exit(ExitNoChapters)
           ELSE x_pc' = "extract" /\ UNCHANGED <<x_exit_code, x_stdout>>
    /\ UNCHANGED <<x_manual_mode, x_use_manual, x_outline, x_nested_chapters>>
    /\ UNCHANGED <<r_vars, o_vars, u_vars, m_vars, e_vars>>

\* selected_chapters = run_tui(...), then `if not selected_chapters`.
main_run_tui ==
    /\ x_pc = "tree_tui"
    /\ \E selected \in TreeResults(x_nested_chapters) :
        /\ x_selected' = selected
        /\ IF NothingSelected(selected)
           THEN Exit(ExitNoChapters)
           ELSE x_pc' = "extract" /\ UNCHANGED <<x_exit_code, x_stdout>>
    /\ UNCHANGED <<x_manual_mode, x_use_manual, x_outline, x_nested_chapters>>
    /\ UNCHANGED <<r_vars, o_vars, u_vars, m_vars, e_vars>>

\* extract_chapters(pdf_path, selected_chapters): it returns, or it raises
\* (the directory or a file cannot be written) and the except clause exits.
main_extract ==
    /\ x_pc = "extract"
    /\ \E raised \in BOOLEAN :
        IF raised THEN Exit(ExitException) ELSE Exit(ExitExtracted)
    /\ UNCHANGED <<x_manual_mode, x_use_manual, x_outline, x_nested_chapters, x_selected>>
    /\ UNCHANGED <<r_vars, o_vars, u_vars, m_vars, e_vars>>

MainNext ==
    \/ main_args
    \/ main_open
    \/ main_run_manual_range_tui
    \/ main_run_tui
    \/ main_extract

\* ------------------------------------------------------- main: claim C8

\* main fell back to manual mode (it was not forced) and the manual session
\* gave no chapters.
FallbackGaveNothing ==
    /\ x_pc = "exit"
    /\ ~x_manual_mode
    /\ x_use_manual
    /\ x_stdout = "No chapters selected."

InitResolve ==
    /\ ResolveInit
    /\ FlattenIdle
    /\ UIIdle
    /\ ManualIdle
    /\ ExtractIdle
    /\ MainIdle

SpecResolve == InitResolve /\ [][Resolve]_vars

InitFlatten ==
    /\ FlattenInit
    /\ ResolveIdle
    /\ UIIdle
    /\ ManualIdle
    /\ ExtractIdle
    /\ MainIdle

SpecFlatten == InitFlatten /\ [][Flatten]_vars

InitUI ==
    /\ UIInit
    /\ ResolveIdle
    /\ FlattenIdle
    /\ ManualIdle
    /\ ExtractIdle
    /\ MainIdle

SpecUI == InitUI /\ [][UINext]_vars

InitManual ==
    /\ ManualInit
    /\ ResolveIdle
    /\ FlattenIdle
    /\ UIIdle
    /\ ExtractIdle
    /\ MainIdle

SpecManual == InitManual /\ [][ManualNext]_vars

InitExtract ==
    /\ ExtractInit
    /\ ResolveIdle
    /\ FlattenIdle
    /\ UIIdle
    /\ ManualIdle
    /\ MainIdle

SpecExtract == InitExtract /\ [][Extract]_vars

InitMain ==
    /\ MainInit
    /\ ResolveIdle
    /\ FlattenIdle
    /\ UIIdle
    /\ ManualIdle
    /\ ExtractIdle

SpecMain == InitMain /\ [][MainNext]_vars

====
